---------------------------- MODULE Spec2Model ----------------------------
(***************************************************************************)
(* Model of cleaned_tiktok_influencer_finder.py: the TikTokAPI adapter     *)
(* (search_users, get_user_videos), search_influencers_by_keyword,         *)
(* filter_influencers and find_tiktok_influencers.                         *)
(*                                                                         *)
(* The program is single-threaded; pc is the position of the one thread.   *)
(* The remote service is the environment: each adapter call draws its      *)
(* HTTP response nondeterministically.                                     *)
(*                                                                         *)
(* The with statements of lines 110 and 135 (the progress bar) are read as  *)
(* context managers without effect on the state modelled here.             *)
(*                                                                         *)
(* avg_views (a Python float, total_views / len(videos)) is modelled as    *)
(* the exact fraction in lowest terms; float division is correctly rounded *)
(* and the comparison float >= int is exact, so the two agree while the    *)
(* totals stay below 2^53.                                                 *)
(***************************************************************************)
EXTENDS Integers, Sequences, FiniteSets, TLC

VARIABLES
    keywords,               \* find_tiktok_influencers: keywords
    max_results,            \* results_per_keyword / max_results
    max_followers,
    min_avg_views,
    pc,                     \* position of the single thread
    kwIdx,                  \* index of the keyword of the for loop (line 189)
    all_users,              \* search_influencers_by_keyword: all_users
    offset,                 \* search_influencers_by_keyword: offset
    users,                  \* value returned by search_influencers_by_keyword
    fIdx,                   \* position of the for loop of filter_influencers
    videos,                 \* filter_influencers: videos (play counts)
    qualified_influencers,  \* filter_influencers: qualified_influencers
    all_influencers,        \* find_tiktok_influencers: all_influencers
    result,                 \* value returned by find_tiktok_influencers
    \* history variables (observations of the run, never read by the program)
    searchLog,              \* the search_users calls of the running search
    searchCalls,            \* number of search_users calls that returned, current keyword
    filterCalls,            \* filter_influencers invocations for the current keyword
    trace,                  \* events of the current filter_influencers invocation
    fetched,                \* per candidate position: play counts get_user_videos returned
    lastCall,               \* the adapter call just made: response kind and outcome
    origin,                 \* per entry of all_influencers: index of its keyword
    emptyFirst              \* keyword indices whose first search call returned empty

vars == <<keywords, max_results, max_followers, min_avg_views, pc, kwIdx,
          all_users, offset, users, fIdx, videos, qualified_influencers,
          all_influencers, result, searchLog, searchCalls, filterCalls, trace,
          fetched, lastCall, origin, emptyFirst>>

inputs == <<keywords, max_results, max_followers, min_avg_views>>

-----------------------------------------------------------------------------
(* Bounds of the model                                                     *)

MaxResults == 2     \* max_results ranges over 0..MaxResults
MaxPage    == 2     \* a search response carries at most MaxPage records
MaxVideos  == 2     \* a video response carries at most MaxVideos items

batch_size == 30    \* line 108; passed as count, the response need not fill it
video_count == 30   \* line 148: count=30

KeywordLists == {<<"tech">>, <<"tech", "ai">>, <<"ai", "ai">>}
MaxFollowersChoices == {1}
MinAvgViewsChoices == {2}
PlayCounts == {1, 3}

Absent == -1        \* the record has no "followerCount" key

\* Raw user records a search response may carry (user_data["user"]).
UserRecords ==
    { [secUid |-> 1, uniqueId |-> "a", followerCount |-> 1],
      [secUid |-> 1, uniqueId |-> "a", followerCount |-> 2],
      [secUid |-> 2, uniqueId |-> "b", followerCount |-> Absent] }

SeqsUpTo(S, n) == UNION { [1..k -> S] : k \in 0..n }

Min(a, b) == IF a < b THEN a ELSE b

-----------------------------------------------------------------------------
(* Pure helpers                                                            *)

RECURSIVE Sum(_)
Sum(s) == IF s = <<>> THEN 0 ELSE s[1] + Sum(Tail(s))

RECURSIVE GCD(_, _)
GCD(a, b) == IF b = 0 THEN a ELSE GCD(b, a % b)

\* total_views / len(videos), line 156 (n > 0; n = 0 raises ZeroDivisionError)
TrueDiv(total, n) ==
    IF n = 0 THEN [num |-> total, den |-> 0]
    ELSE [num |-> total \div GCD(total, n), den |-> n \div GCD(total, n)]

\* mutant: the floor taken as strict
AvgAboveMutant(avg, m) == avg.num > m * avg.den

\* avg_views >= min_avg_views, line 159
AvgAtLeast(avg, m) == avg.num >= m * avg.den

\* int(user.get("followerCount", 0)), line 140
FollowerCount(user) == IF user.followerCount = Absent THEN 0 ELSE user.followerCount

\* mutant: the first occurrence of a key is kept
FirstWinsBySecUid(s) ==
    LET f[n \in 0..Len(s)] ==
            IF n = 0 THEN <<>>
            ELSE LET d == f[n-1]
                 IN IF \E i \in 1..Len(d) : d[i].secUid = s[n].secUid
                    THEN d ELSE Append(d, s[n])
    IN f[Len(s)]

\* {user["user"]["secUid"]: user for user in all_users}.values(), lines 126-129:
\* a key keeps the position of its first occurrence and the value of its last.
DedupBySecUid(s) ==
    LET f[n \in 0..Len(s)] ==
            IF n = 0 THEN <<>>
            ELSE LET d == f[n-1]
                     hit == {i \in 1..Len(d) : d[i].secUid = s[n].secUid}
                 IN IF hit = {} THEN Append(d, s[n])
                    ELSE [i \in 1..Len(d) |-> IF i \in hit THEN s[n] ELSE d[i]]
    IN f[Len(s)]

\* mutant: the first occurrence of a key is kept
FirstWinsByUsername(s) ==
    LET f[n \in 0..Len(s)] ==
            IF n = 0 THEN <<>>
            ELSE LET d == f[n-1]
                 IN IF \E i \in 1..Len(d) : d[i].username = s[n].username
                    THEN d ELSE Append(d, s[n])
    IN f[Len(s)]

\* {inf["username"]: inf for inf in all_influencers}.values(), lines 202-203
DedupByUsername(s) ==
    LET f[n \in 0..Len(s)] ==
            IF n = 0 THEN <<>>
            ELSE LET d == f[n-1]
                     hit == {i \in 1..Len(d) : d[i].username = s[n].username}
                 IN IF hit = {} THEN Append(d, s[n])
                    ELSE [i \in 1..Len(d) |-> IF i \in hit THEN s[n] ELSE d[i]]
    IN f[Len(s)]

-----------------------------------------------------------------------------
(* The HTTP adapter                                                        *)

Ret(v)   == [raised |-> FALSE, value |-> v]
Raise    == [raised |-> TRUE,  value |-> <<>>]

\* Responses to a request: transport failures, bad status, a body that is
\* no JSON, JSON bodies without the expected path, and well-formed bodies.
\* response.json() on a body that is no JSON raises
\* requests.exceptions.JSONDecodeError, a RequestException (requests >= 2.27).
\* "userInfo_null" is the body {"userInfo": null}, "body_null" the body null.
TransportKinds == {"timeout", "http_error", "invalid_json"}
SearchShapeKinds == {"no_userInfo", "no_user_list", "userInfo_null"}
VideoShapeKinds == {"no_itemList", "body_null"}
FailureKinds == TransportKinds \cup SearchShapeKinds \cup VideoShapeKinds

SearchResponses ==
    { [kind |-> k, list |-> <<>>] : k \in TransportKinds \cup SearchShapeKinds }
    \cup { [kind |-> "ok", list |-> l] : l \in SeqsUpTo(UserRecords, Min(MaxPage, batch_size)) }

VideoResponses ==
    { [kind |-> k, list |-> <<>>] : k \in TransportKinds \cup VideoShapeKinds }
    \cup { [kind |-> "ok", list |-> l] : l \in SeqsUpTo(PlayCounts, Min(MaxVideos, video_count)) }

\* TikTokAPI.search_users, lines 22-47
search_users(resp) ==
    CASE resp.kind \in TransportKinds -> Ret(<<>>)    \* RequestException, lines 45-47
      [] resp.kind = "no_userInfo"    -> Ret(<<>>)    \* line 39, first disjunct
      [] resp.kind = "no_user_list"   -> Ret(<<>>)    \* line 39, second disjunct
      [] resp.kind = "userInfo_null"  -> Raise        \* "user_list" not in None: TypeError
      [] OTHER                        -> Ret(resp.list)

\* TikTokAPI.get_user_videos, lines 74-100
get_user_videos(resp) ==
    CASE resp.kind \in TransportKinds -> Ret(<<>>)    \* RequestException, lines 98-100
      [] resp.kind = "no_itemList"    -> Ret(<<>>)    \* line 92
      [] resp.kind = "body_null"      -> Raise        \* "itemList" not in None: TypeError
      [] OTHER                        -> Ret(resp.list)

NoCall == [op |-> "none", kind |-> "none", raised |-> FALSE, n |-> 0]

-----------------------------------------------------------------------------
(* Initial state                                                           *)

Init ==
    /\ keywords \in KeywordLists
    /\ max_results \in 0..MaxResults
    /\ max_followers \in MaxFollowersChoices
    /\ min_avg_views \in MinAvgViewsChoices
    /\ pc = "next_keyword"
    /\ kwIdx = 0
    /\ all_users = <<>>
    /\ offset = 0
    /\ users = <<>>
    /\ fIdx = 1
    /\ videos = <<>>
    /\ qualified_influencers = <<>>
    /\ all_influencers = <<>>
    /\ result = <<>>
    /\ searchLog = <<>>
    /\ searchCalls = 0
    /\ filterCalls = 0
    /\ trace = <<>>
    /\ fetched = <<>>
    /\ lastCall = NoCall
    /\ origin = <<>>
    /\ emptyFirst = {}


-----------------------------------------------------------------------------
(* Conditions of the code, one operator each                               *)

\* mutant: one iteration too many
LoopConditionMutant(n, m) == n <= m

\* while len(all_users) < max_results, line 111
LoopCondition(n, m) == n < m

\* mutant: an empty page does not end the loop
NoUsersMutant(u) == FALSE

\* if not users, line 114
NoUsers(u) == Len(u) = 0

\* offset += len(users), line 120
NextOffset(off, u) == off + Len(u)

\* mutant: the ceiling off by one
OverCeilingMutant(fc, mx) == fc > mx + 1

\* if follower_count > max_followers, line 143
OverCeiling(fc, mx) == fc > mx

\* mutant: the empty check left out
NoVideosMutant(v) == FALSE

\* if not videos, line 150
NoVideos(v) == Len(v) = 0

\* influencer_data, lines 160-172 (the fields copied unchanged from the user
\* record other than username, followerCount and secUid are left out)
InfluencerData(user, avg, niche) ==
    [username      |-> user.uniqueId,
     followerCount |-> FollowerCount(user),
     avgViews      |-> avg,
     secUid        |-> user.secUid,
     niche         |-> niche]

Event(e, i, n) == [ev |-> e, i |-> i, n |-> n]

-----------------------------------------------------------------------------
(* find_tiktok_influencers, lines 184-203                                  *)

\* for keyword in keywords (line 189), entering search_influencers_by_keyword
\* (lines 102-108)
KeywordStart ==
    /\ pc = "next_keyword"
    /\ kwIdx < Len(keywords)
    /\ kwIdx' = kwIdx + 1
    /\ all_users' = <<>>
    /\ offset' = 0
    /\ searchLog' = <<>>
    /\ searchCalls' = 0
    /\ filterCalls' = 0
    /\ trace' = <<>>
    /\ fetched' = <<>>
    /\ lastCall' = NoCall
    /\ users' = <<>>
    /\ pc' = "search_loop"
    /\ UNCHANGED <<inputs, fIdx, videos, qualified_influencers,
                   all_influencers, result, origin, emptyFirst>>

\* one iteration of the while loop, lines 111-123
SearchIteration ==
    /\ pc = "search_loop"
    /\ LoopCondition(Len(all_users), max_results)
    /\ \E resp \in SearchResponses :
         LET r == search_users(resp)
             entry == [offset |-> offset, before |-> Len(all_users), n |-> Len(r.value)]
         IN /\ lastCall' = [op |-> "search_users", kind |-> resp.kind,
                            raised |-> r.raised, n |-> Len(r.value)]
            /\ IF r.raised
               THEN /\ pc' = "aborted"
                    /\ UNCHANGED <<all_users, offset, searchLog, searchCalls, emptyFirst>>
               ELSE /\ searchLog' = Append(searchLog, entry)
                    /\ searchCalls' = searchCalls + 1
                    /\ emptyFirst' = IF searchLog = <<>> /\ Len(r.value) = 0
                                     THEN emptyFirst \cup {kwIdx} ELSE emptyFirst
                    /\ IF NoUsers(r.value)
                       THEN /\ pc' = "search_dedup"           \* break, line 115
                            /\ UNCHANGED <<all_users, offset>>
                       ELSE /\ all_users' = all_users \o r.value
                            /\ offset' = NextOffset(offset, r.value)
                            /\ pc' = "search_loop"            \* after the sleep, line 123
    /\ UNCHANGED <<inputs, kwIdx, users, fIdx, videos, qualified_influencers,
                   all_influencers, result, filterCalls, trace, fetched, origin>>

\* the while condition is false, line 111
SearchLoopExit ==
    /\ pc = "search_loop"
    /\ ~LoopCondition(Len(all_users), max_results)
    /\ pc' = "search_dedup"
    /\ lastCall' = NoCall
    /\ UNCHANGED <<inputs, kwIdx, all_users, offset, users, fIdx, videos,
                   qualified_influencers, all_influencers, result, searchLog, searchCalls,
                   filterCalls, trace, fetched, origin, emptyFirst>>

\* lines 126-129 and the assignment of line 193
SearchReturn ==
    /\ pc = "search_dedup"
    /\ users' = DedupBySecUid(all_users)
    /\ pc' = "filter_call"
    /\ lastCall' = NoCall
    /\ UNCHANGED <<inputs, kwIdx, all_users, offset, fIdx, videos,
                   qualified_influencers, all_influencers, result, searchLog, searchCalls,
                   filterCalls, trace, fetched, origin, emptyFirst>>

\* the call of line 196 and lines 131-135
FilterInvoke ==
    /\ pc = "filter_call"
    /\ filterCalls' = filterCalls + 1
    /\ qualified_influencers' = <<>>
    /\ fIdx' = 1
    /\ videos' = <<>>
    /\ trace' = <<>>
    /\ fetched' = [i \in 1..Len(users) |-> <<>>]
    /\ all_users' = <<>>        \* the frame of search_influencers_by_keyword is gone
    /\ offset' = 0
    /\ searchLog' = <<>>
    /\ pc' = "filter_loop"
    /\ UNCHANGED <<inputs, kwIdx, users, all_influencers, result, searchCalls,
                   lastCall, origin, emptyFirst>>

\* lines 136-145: next candidate and its follower check
FilterCheck ==
    /\ pc = "filter_loop"
    /\ fIdx <= Len(users)
    /\ trace' = Append(trace, Event("check", fIdx, 0))
    /\ IF OverCeiling(FollowerCount(users[fIdx]), max_followers)
       THEN /\ fIdx' = fIdx + 1                               \* continue, line 145
            /\ pc' = "filter_loop"
       ELSE /\ pc' = "filter_fetch"
            /\ UNCHANGED fIdx
    /\ lastCall' = NoCall
    /\ UNCHANGED <<inputs, kwIdx, all_users, offset, users, videos,
                   qualified_influencers, all_influencers, result, searchLog, searchCalls,
                   filterCalls, fetched, origin, emptyFirst>>

\* lines 148-152: the video fetch and the empty check
FilterFetch ==
    /\ pc = "filter_fetch"
    /\ \E resp \in VideoResponses :
         LET r == get_user_videos(resp)
         IN /\ lastCall' = [op |-> "get_user_videos", kind |-> resp.kind,
                            raised |-> r.raised, n |-> Len(r.value)]
            /\ trace' = Append(trace, Event("fetch", fIdx, Len(r.value)))
            /\ IF r.raised
               THEN /\ pc' = "aborted"
                    /\ UNCHANGED <<videos, fetched, fIdx>>
               ELSE /\ videos' = r.value
                    /\ fetched' = [fetched EXCEPT ![fIdx] = r.value]
                    /\ IF NoVideos(r.value)
                       THEN /\ fIdx' = fIdx + 1               \* continue, line 152
                            /\ pc' = "filter_loop"
                       ELSE /\ pc' = "filter_average"
                            /\ UNCHANGED fIdx
    /\ UNCHANGED <<inputs, kwIdx, all_users, offset, users,
                   qualified_influencers, all_influencers, result, searchLog, searchCalls,
                   filterCalls, origin, emptyFirst>>

\* lines 155-177: the average and the view floor
FilterAverage ==
    /\ pc = "filter_average"
    /\ LET total_views == Sum(videos)
           avg_views == TrueDiv(total_views, Len(videos))
       IN /\ trace' = Append(trace, Event("average", fIdx, Len(videos)))
          /\ qualified_influencers' =
                IF AvgAtLeast(avg_views, min_avg_views)
                THEN Append(qualified_influencers,
                            InfluencerData(users[fIdx], avg_views, keywords[kwIdx]))
                ELSE qualified_influencers
    /\ pc' = "filter_sleep"
    /\ lastCall' = NoCall
    /\ UNCHANGED <<inputs, kwIdx, all_users, offset, users, fIdx, videos,
                   all_influencers, result, searchLog, searchCalls, filterCalls, fetched,
                   origin, emptyFirst>>

\* line 180: time.sleep(random.uniform(1.0, 2.0)), end of the iteration
FilterSleep ==
    /\ pc = "filter_sleep"
    /\ trace' = Append(trace, Event("sleep", fIdx, 0))
    /\ fIdx' = fIdx + 1
    /\ pc' = "filter_loop"
    /\ UNCHANGED <<inputs, kwIdx, all_users, offset, users, videos,
                   qualified_influencers, all_influencers, result, searchLog, searchCalls,
                   filterCalls, fetched, lastCall, origin, emptyFirst>>

\* the for loop is exhausted: return (line 182)
FilterReturn ==
    /\ pc = "filter_loop"
    /\ fIdx > Len(users)
    /\ pc' = "filter_return"
    /\ lastCall' = NoCall
    /\ UNCHANGED <<inputs, kwIdx, all_users, offset, users, fIdx, videos,
                   qualified_influencers, all_influencers, result, searchLog, searchCalls,
                   filterCalls, trace, fetched, origin, emptyFirst>>

\* all_influencers.extend(qualified), line 197; the frame of
\* filter_influencers is gone
Extend ==
    /\ pc = "filter_return"
    /\ all_influencers' = all_influencers \o qualified_influencers
    /\ origin' = origin \o [i \in 1..Len(qualified_influencers) |-> kwIdx]
    /\ qualified_influencers' = <<>>
    /\ fIdx' = 1
    /\ videos' = <<>>
    /\ trace' = <<>>
    /\ fetched' = <<>>
    /\ pc' = "next_keyword"
    /\ UNCHANGED <<inputs, kwIdx, all_users, offset, users, result, searchLog,
                   searchCalls, filterCalls, lastCall, emptyFirst>>

\* lines 201-203: the keywords are exhausted
Finish ==
    /\ pc = "next_keyword"
    /\ kwIdx = Len(keywords)
    /\ result' = DedupByUsername(all_influencers)
    /\ pc' = "done"
    /\ UNCHANGED <<inputs, kwIdx, all_users, offset, users, fIdx, videos,
                   qualified_influencers, all_influencers, searchLog, searchCalls,
                   filterCalls, trace, fetched, lastCall, origin, emptyFirst>>

Next ==
    \/ KeywordStart
    \/ SearchIteration
    \/ SearchLoopExit
    \/ SearchReturn
    \/ FilterInvoke
    \/ FilterCheck
    \/ FilterFetch
    \/ FilterAverage
    \/ FilterSleep
    \/ FilterReturn
    \/ Extend
    \/ Finish

Spec == Init /\ [][Next]_vars

\* One call of search_influencers_by_keyword (line 193), run to its return.
\* The thread is never suspended: an enabled step is eventually taken.
SearchNext ==
    \/ KeywordStart
    \/ SearchIteration
    \/ SearchLoopExit
    \/ SearchReturn

SearchSpec == Init /\ [][SearchNext]_vars /\ WF_vars(SearchNext)

-----------------------------------------------------------------------------
(* Observations used by the properties                                     *)

Positions(e) == {p \in 1..Len(trace) : trace[p].ev = e}
PositionsOf(e, i) == {p \in Positions(e) : trace[p].i = i}

InFilter == pc \in {"filter_loop", "filter_fetch", "filter_average",
                    "filter_sleep", "filter_return"}

\* The three conditions of the qualification, on what the adapter returned
\* for the candidate at position i.
Qualifies(i) ==
    /\ FollowerCount(users[i]) <= max_followers
    /\ Len(fetched[i]) > 0
    /\ Sum(fetched[i]) >= min_avg_views * Len(fetched[i])

ExpectedRecord(i) ==
    [username      |-> users[i].uniqueId,
     followerCount |-> FollowerCount(users[i]),
     avgViews      |-> TrueDiv(Sum(fetched[i]), Len(fetched[i])),
     secUid        |-> users[i].secUid,
     niche         |-> keywords[kwIdx]]

ExpectedQualified ==
    LET f[n \in 0..Len(users)] ==
            IF n = 0 THEN <<>>
            ELSE IF Qualifies(n) THEN Append(f[n-1], ExpectedRecord(n)) ELSE f[n-1]
    IN f[Len(users)]

LastIndex(s, P(_)) ==
    LET hit == {i \in 1..Len(s) : P(s[i])}
    IN CHOOSE i \in hit : \A j \in hit : j <= i

FirstIndex(s, P(_)) ==
    LET hit == {i \in 1..Len(s) : P(s[i])}
    IN CHOOSE i \in hit : \A j \in hit : i <= j

-----------------------------------------------------------------------------
(* C1: a candidate over the follower ceiling is never fetched, and every   *)
(* video fetch of a candidate comes after that candidate's follower check. *)
C1_NoFetchOverCeiling ==
    \A p \in Positions("fetch") :
        /\ FollowerCount(users[trace[p].i]) <= max_followers
        /\ \E q \in PositionsOf("check", trace[p].i) : q < p

C1_Witness ==
    /\ pc = "filter_return"
    /\ \E i \in 1..Len(users) :
          /\ FollowerCount(users[i]) > max_followers
          /\ PositionsOf("check", i) # {}
    /\ Positions("fetch") # {}

(* C2: the average is only computed over a non-empty video list, and no    *)
(* candidate whose fetch returned nothing is in the list being returned.   *)
C2_NoEmptyAverage ==
    /\ \A p \in Positions("average") : trace[p].n > 0
    /\ InFilter =>
         \A k \in 1..Len(qualified_influencers) :
            /\ qualified_influencers[k].avgViews.den > 0
            /\ \E i \in 1..Len(users) :
                  /\ users[i].secUid = qualified_influencers[k].secUid
                  /\ Len(fetched[i]) > 0

C2_Witness ==
    /\ pc = "filter_return"
    /\ \E p \in Positions("fetch") : trace[p].n = 0
    /\ \E p \in Positions("average") : trace[p].n > 0
    /\ Len(qualified_influencers) = 1

(* C3: filter_influencers returns exactly the candidates, in input order,  *)
(* that pass the follower ceiling, have at least one video and whose       *)
(* average reaches min_avg_views, each with its average and the niche.     *)
C3_ReturnsExactlyQualified ==
    pc = "filter_return" => qualified_influencers = ExpectedQualified

C3_Witness ==
    /\ pc = "filter_return"
    /\ Len(users) = 2
    /\ Len(qualified_influencers) = 1
    /\ qualified_influencers[1].avgViews = [num |-> 2, den |-> 1]
    /\ Cardinality(Positions("average")) = 2

(* C4: search_influencers_by_keyword returns at most max_results           *)
(* candidates.                                                             *)
C4_AtMostMaxResults ==
    pc = "filter_call" => Len(users) <= max_results

(* C5: the final list has exactly one entry per username of the qualified  *)
(* results; the entry is the one of the last keyword that qualified the    *)
(* username; the entries are in order of first insertion.                  *)
C5_OnePerUsernameLastWins ==
    pc = "done" =>
      /\ \A i, j \in 1..Len(result) : result[i].username = result[j].username => i = j
      /\ {result[i].username : i \in 1..Len(result)}
            = {all_influencers[i].username : i \in 1..Len(all_influencers)}
      /\ \A i \in 1..Len(result) :
            LET same(x) == x.username = result[i].username
                last == LastIndex(all_influencers, same)
            IN /\ result[i] = all_influencers[last]
               /\ result[i].niche = keywords[origin[last]]
               /\ \A k \in 1..Len(all_influencers) :
                     same(all_influencers[k]) => origin[k] <= origin[last]
      /\ \A i, j \in 1..Len(result) :
            LET si(x) == x.username = result[i].username
                sj(x) == x.username = result[j].username
            IN i < j => FirstIndex(all_influencers, si) < FirstIndex(all_influencers, sj)

C5_Witness ==
    /\ pc = "done"
    /\ Len(result) = 2
    /\ \E i, j \in 1..Len(all_influencers) :
          /\ all_influencers[i].username = all_influencers[j].username
          /\ origin[i] < origin[j]
          /\ all_influencers[i].niche # all_influencers[j].niche
          /\ all_influencers[i].avgViews # all_influencers[j].avgViews

(* C6: every failure of the outbound request makes search_users and        *)
(* get_user_videos return an empty sequence; no exception reaches the      *)
(* caller and the run is not aborted.                                      *)
C6_FailureYieldsEmpty ==
    lastCall.kind \in FailureKinds =>
        /\ ~lastCall.raised
        /\ lastCall.n = 0
        /\ pc # "aborted"

(* C7: the value returned by search_influencers_by_keyword has no two      *)
(* records with the same secUid, is no longer than the accumulated list,   *)
(* and holds for each secUid the latest accumulated record.                *)
C7_DedupBySecUid ==
    pc = "filter_call" =>
      /\ \A i, j \in 1..Len(users) : users[i].secUid = users[j].secUid => i = j
      /\ Len(users) <= Len(all_users)
      /\ {users[i].secUid : i \in 1..Len(users)}
            = {all_users[i].secUid : i \in 1..Len(all_users)}
      /\ \A i \in 1..Len(users) :
            LET same(x) == x.secUid = users[i].secUid
            IN users[i] = all_users[LastIndex(all_users, same)]

C7_Witness ==
    /\ pc = "filter_call"
    /\ Len(users) = 2
    /\ \E i, j \in 1..Len(all_users) :
          /\ i < j
          /\ all_users[i].secUid = all_users[j].secUid
          /\ all_users[i] # all_users[j]

FirstSearchEmpty == kwIdx \in emptyFirst

(* C8 as stated: when the first search call of a keyword returns empty,    *)
(* there is exactly one search call, filter_influencers is never invoked,  *)
(* no video is fetched and the keyword contributes nothing.                *)
C8_FilterNeverInvoked ==
    FirstSearchEmpty =>
        /\ searchCalls = 1
        /\ filterCalls = 0
        /\ Positions("fetch") = {}
        /\ \A k \in 1..Len(origin) : origin[k] # kwIdx

(* C8 as amended: when the first search call of a keyword returns empty,   *)
(* there is exactly one search call for the keyword, the aggregator        *)
(* returns an empty list, filter_influencers is invoked once on that empty *)
(* list and processes no candidate (no follower check, no video fetch),    *)
(* the keyword contributes no qualified influencer, and the run is not     *)
(* aborted during the keyword.                                             *)
C8_EmptyFirstSearch ==
    /\ FirstSearchEmpty =>
          /\ searchCalls = 1
          /\ pc \in {"search_dedup", "filter_call"} => searchLog = <<[offset |-> 0, before |-> 0, n |-> 0]>>
          /\ all_users = <<>>
          /\ pc \in {"search_dedup", "filter_call", "filter_loop",
                     "filter_return", "next_keyword", "done"}
          /\ pc # "search_dedup" => users = <<>>
          /\ filterCalls <= 1
          /\ pc \in {"filter_loop", "filter_return", "next_keyword", "done"}
                => filterCalls = 1
          /\ trace = <<>>
          /\ pc \in {"filter_loop", "filter_return"} => qualified_influencers = <<>>
    /\ \A k \in 1..Len(origin) : origin[k] \notin emptyFirst

C8_Witness ==
    /\ 1 \in emptyFirst
    /\ kwIdx = 2
    /\ pc = "filter_return"
    /\ Len(qualified_influencers) > 0

(* C9: in filter_influencers a delay step lies between the processing of   *)
(* any two consecutive candidates, and between any two video fetches.      *)
C9_DelayBetweenCandidates ==
    /\ \A p, q \in Positions("check") :
          p < q => \E r \in Positions("sleep") : p < r /\ r < q
    /\ \A p, q \in Positions("fetch") :
          p < q => \E r \in Positions("sleep") : p < r /\ r < q

(* C10: a search call is issued only while fewer than max_results records  *)
(* are accumulated and the previous call returned records; its offset is   *)
(* the number of records the previous calls returned; at most max_results  *)
(* calls return records; and the loop is left.                             *)
PreviousTotal(k) == Sum([j \in 1..(k-1) |-> searchLog[j].n])

C10_LoopInvariant ==
    /\ \A k \in 1..Len(searchLog) :
          /\ searchLog[k].before < max_results
          /\ searchLog[k].offset = PreviousTotal(k)
          /\ searchLog[k].before = PreviousTotal(k)
          /\ k > 1 => searchLog[k-1].n > 0
    /\ Cardinality({k \in 1..Len(searchLog) : searchLog[k].n > 0}) <= max_results
    /\ pc = "search_loop" => offset = Len(all_users)

C10_PaginationTerminates ==
    /\ []C10_LoopInvariant
    /\ (pc = "search_loop") ~> (pc \in {"search_dedup", "aborted"})

C10_Witness ==
    /\ pc = "search_dedup"
    /\ max_results = MaxResults
    /\ Len(searchLog) = MaxResults
    /\ \A k \in 1..Len(searchLog) : searchLog[k].n = 1

=============================================================================
